---- MODULE Spec2Model ----
(***************************************************************************)
(* State-machine model of the Vite + Jasmine test runner.                  *)
(*                                                                         *)
(* Two code bases are covered.  variant = "monolith" is src/index.ts: the  *)
(* ConsoleReporter, the WebSocket relay (createWebSocketServer and         *)
(* handleWebSocketMessage), the three drivers and start()/cleanup().       *)
(* variant = "modular" is the split version of the relay,                  *)
(* WebSocketManager (src/unnamed/part_003) together with the               *)
(* testsCompleted listener of runHeadlessBrowserMode                       *)
(* (src/unnamed/part_004).                                                 *)
(*                                                                         *)
(* Every await of the code is a step boundary: an action runs from one     *)
(* resumption to the next suspension.  Outcomes of the collaborators       *)
(* (glob, vite build, playwright, the child process, the page) are         *)
(* nondeterministic inputs of the actions.                                 *)
(***************************************************************************)
EXTENDS Integers, Sequences, FiniteSets, TLC

(* ---- bounds ---------------------------------------------------------- *)
MaxMsgs == 3        \* WebSocket messages received during one start()
MaxRelayMsgs == 3   \* WebSocket messages received by the relay on its own
MaxConns == 1       \* WebSocket connections accepted
MaxSigints == 1     \* SIGINTs delivered
MaxCleanupCalls == 2 \* cleanup() calls made by a user of the class
MaxFailures == 1     \* failed specs inside the generated runner
MaxSent == 2         \* frames sent with delivery pending
MaxEvents == 4       \* reporter events of the test page
MaxChanges == 7      \* file changes reported by the watcher
MaxSegs == 2         \* path segments of a request URL

ConnIds == 1..MaxConns
\* callers of cleanup(): start(), the two handlers of headed mode, and a
\* user of the class (cleanup() is public)
Threads == {"main", "pageClose", "sigint", "api"}

VARIABLES
  variant,          \* which code base runs: "monolith" | "modular"
  headless,         \* config.headless
  browser,          \* config.browser: "chrome" | "firefox" | "bogus" | "node"
  pc,               \* position of start()
  exitCode,         \* "none" until process.exit(code): "0" | "1"
  killed,           \* process ended by the default SIGINT disposition
  pendingExit,      \* exit code start() passes to process.exit after cleanup
  fs,               \* outDir on disk and the build
  printed,          \* diagnostics written to the console
  server,           \* this.server is set
  httpLib,          \* http.Server: "none" | "created" | "listening" | "closing" | "closed"
  wss,              \* this.wss is set
  wssLib,           \* WebSocketServer: "none" | "open" | "closing" | "closed"
  wsClients,        \* this.wsClients
  conn,             \* sockets: "none" | "open" | "closed"
  sent,             \* history: frames the client of each socket has sent
  inbox,            \* frames sent on each socket and not yet handled
  handled,          \* history: frames of each socket passed to ws.on('message')
  consoleReporter,  \* this.consoleReporter (exists = FALSE: null)
  testCompleted,    \* this.testCompleted
  testSuccess,      \* this.testSuccess (modular: the local of runHeadlessBrowserMode)
  emitted,          \* modular: payloads of the testsCompleted events emitted
  log,              \* history: messages received for the current reporter
  rendered,         \* what the latest jasmineDone call printed
  msgCount,         \* number of WebSocket messages received
  browserInst,      \* playwright browser: "none" | "open" | "closed"
  page,             \* "none" | "open" | "navigated" | "closed"
  jasmineFinished,  \* window.jasmineFinished of the page
  flagSeen,         \* history: waitForFunction() resolved
  engine,           \* browser engine launched: "none" | "chromium" | "firefox"
  interrupted,      \* the local `interrupted` of the running driver
  listeners,        \* SIGINT listeners installed on process
  child,            \* spawned runner: "none" | "running" | "closed" | "error"
  childCode,        \* exit code the child closed with: "none" | "0" | "1" | "null"
  childKilled,      \* child.kill('SIGINT') was called
  childRun,         \* what happened inside the generated runner
  success,          \* value the driver returned to start()
  sigints,          \* SIGINTs delivered so far
  sigintExec,       \* history: a SIGINT arrived while a driver was executing
  hpc,              \* position of the async event handlers
  cpc,              \* position of each caller inside cleanup()
  closeCalls,       \* history: close() calls made on the two servers
  cleanupCalls,     \* history: calls of cleanup()
  readyState,       \* page: this.ws: "none" | "connecting" | "open" | "closed"
  connected,        \* page: this.connected of the forwarder
  messageQueue,     \* page: this.messageQueue of the forwarder
  offered,          \* history: messages passed to the forwarder's send
  transmitted,      \* history: messages passed to ws.send by the page
  openedAt,         \* history: Len(offered) when onopen ran, -1 before
  debounceTimer,    \* watch mode: "null" | "pending" | "fired"
  rebuilding,       \* watch mode: preprocess() calls in progress
  changes,          \* history: file changes the watcher has reported
  rebuilds,         \* history: rebuilds started by the timer
  request,          \* the latest HTTP request: method and raw URL segments
  response          \* the answer written for it: status and file sent

vars == << variant, headless, browser, pc, exitCode, killed, pendingExit, fs,
           printed, server, httpLib, wss, wssLib, wsClients, conn, sent, inbox,
           handled,
           consoleReporter, testCompleted, testSuccess, emitted, log, rendered,
           msgCount, browserInst, page, jasmineFinished, flagSeen, engine,
           interrupted, listeners, child, childCode, childKilled, childRun,
           success, sigints, sigintExec, hpc, cpc,
           closeCalls, cleanupCalls,
           readyState, connected, messageQueue, offered, transmitted,
           openedAt, debounceTimer, rebuilding, changes, rebuilds,
           request, response >>

(* ---- ConsoleReporter -------------------------------------------------- *)

\* constructor: all counters zero, both lists empty
NewReporter ==
  [ exists |-> TRUE, specCount |-> 0, executableSpecCount |-> 0,
    failureCount |-> 0, failedSpecs |-> << >>, pendingSpecs |-> << >> ]

NoReporter == [ NewReporter EXCEPT !.exists = FALSE ]

\* jasmineStarted(options): reset every counter and list
JasmineStarted(r) ==
  [ r EXCEPT !.specCount = 0, !.executableSpecCount = 0, !.failureCount = 0,
             !.failedSpecs = << >>, !.pendingSpecs = << >> ]

\* the branch of specDone taken when result.status is 'failed'
SpecDoneFailed(r, result) ==
  [ r EXCEPT !.specCount = @ + 1,
             !.failureCount = @ + 1,
             !.failedSpecs = Append(@, result),
             !.executableSpecCount = @ + 1 ]

\* specDone(result): specCount++, then the switch on result.status; a status
\* outside the three cases falls through the switch
SpecDone(r, result) ==
  CASE result.status = "passed" ->
         [ r EXCEPT !.specCount = @ + 1, !.executableSpecCount = @ + 1 ]
    [] result.status = "failed" -> SpecDoneFailed(r, result)
    [] result.status = "pending" ->
         [ r EXCEPT !.specCount = @ + 1,
                    !.pendingSpecs = Append(@, result),
                    !.executableSpecCount = @ + 1 ]
    [] OTHER -> [ r EXCEPT !.specCount = @ + 1 ]

\* jasmineDone throws a TypeError while rendering the failures when a failed
\* spec carries a failedExpectations value with length > 0 and no forEach
JasmineDoneThrows(r) ==
  \E i \in 1..Len(r.failedSpecs) : r.failedSpecs[i].fe = "nonArray"

\* the value jasmineDone returns
JasmineDoneReturn(r) == r.failureCount

\* nothing printed
NoOutput == [ failed |-> << >>, pending |-> << >>, summary |-> << >> ]

\* the failures section of jasmineDone: one entry per failed spec in list
\* order, its name and then its messages; the loop ends at the first spec
\* whose messages cannot be iterated, with the name already printed
FailedLines(r) ==
  LET n == IF JasmineDoneThrows(r)
             THEN CHOOSE i \in 1..Len(r.failedSpecs) :
                    /\ r.failedSpecs[i].fe = "nonArray"
                    /\ \A j \in 1..(i - 1) : r.failedSpecs[j].fe # "nonArray"
             ELSE Len(r.failedSpecs)
  IN [ i \in 1..n |-> [ id |-> r.failedSpecs[i].id,
                        msgs |-> r.failedSpecs[i].fe = "array" ] ]

\* the pending section of jasmineDone: the pending specs in list order
PendingLines(r) == [ i \in 1..Len(r.pendingSpecs) |-> r.pendingSpecs[i].id ]

\* what jasmineDone prints: failures, pending specs, then the summary with
\* executableSpecCount and failureCount; nothing after a throw
JasmineDoneRender(r) ==
  IF JasmineDoneThrows(r)
    THEN [ failed |-> FailedLines(r), pending |-> << >>, summary |-> << >> ]
    ELSE [ failed |-> FailedLines(r), pending |-> PendingLines(r),
           summary |-> << r.executableSpecCount, r.failureCount >> ]

(* ---- WebSocket messages ----------------------------------------------- *)

\* A received frame.  type "garbage" is a frame JSON.parse rejects; "other"
\* is JSON whose type is none of start, specDone, done.  fe is the shape of
\* failedExpectations after `message.failedExpectations || []`.
SpecDoneMsgs ==
  { [type |-> "specDone", status |-> s, fe |-> "array"] :
      s \in {"passed", "failed", "pending", "bogus"} }
  \cup { [type |-> "specDone", status |-> "failed", fe |-> "nonArray"] }

Messages ==
  { [type |-> t, status |-> "-", fe |-> "-"] :
      t \in {"start", "done", "other", "garbage"} }
  \cup SpecDoneMsgs

\* the result object handleWebSocketMessage builds for specDone
SpecResult(m, id) == [ id |-> id, status |-> m.status, fe |-> m.fe ]

\* entry appended to the history; ret is the value jasmineDone returned
\* (-1: it threw or was not called), id the number of the message
LogEntry(m, ret) ==
  [ type |-> m.type, status |-> m.status, ret |-> ret, id |-> msgCount + 1 ]

(* ---- initial state ---------------------------------------------------- *)

\* the runner has not run
NoRun == [ failures |-> 0, threw |-> FALSE, envReporter |-> "-" ]

NoFs == [ outDir |-> FALSE, build |-> "none", builds |-> 0, builtJs |-> FALSE,
          html |-> FALSE, runner |-> FALSE ]

Alive == exitCode = "none" /\ ~killed

\* the test page is not loaded, the watcher has reported nothing and no
\* request has been made
AuxIdle ==
  /\ readyState = "none" /\ connected = FALSE
  /\ messageQueue = << >> /\ offered = << >> /\ transmitted = << >>
  /\ openedAt = -1
  /\ debounceTimer = "null" /\ rebuilding = 0
  /\ changes = 0 /\ rebuilds = 0
  /\ request = [ method |-> "none", url |-> << >> ]
  /\ response = [ status |-> "none", file |-> << >> ]

\* the state every run shares before anything has happened
Blank ==
  /\ AuxIdle
  /\ exitCode = "none" /\ killed = FALSE /\ pendingExit = "none"
  /\ wsClients = {}
  /\ conn = [c \in ConnIds |-> "none"]
  /\ sent = [c \in ConnIds |-> << >>]
  /\ inbox = [c \in ConnIds |-> << >>]
  /\ handled = [c \in ConnIds |-> << >>]
  /\ testCompleted = FALSE /\ testSuccess = FALSE
  /\ emitted = << >>
  /\ log = << >> /\ msgCount = 0
  /\ rendered = NoOutput
  /\ browserInst = "none" /\ page = "none" /\ jasmineFinished = FALSE
  /\ flagSeen = FALSE
  /\ engine = "none"
  /\ interrupted = FALSE
  /\ child = "none" /\ childCode = "none" /\ childKilled = FALSE
  /\ childRun = NoRun
  /\ success = FALSE
  /\ sigints = 0 /\ sigintExec = FALSE
  /\ hpc = [t \in {"pageClose", "sigint"} |-> "idle"]
  /\ cpc = [t \in Threads |-> "none"]
  /\ closeCalls = [wss |-> 0, server |-> 0]
  /\ cleanupCalls = 0

\* a ViteJasminePreprocessor just constructed from a configuration, its
\* fields at their declared initial values
Init ==
  /\ variant = "monolith"
  /\ headless \in BOOLEAN
  /\ browser \in {"chrome", "firefox", "bogus", "node"}
  /\ pc = "idle"
  /\ server = FALSE /\ httpLib = "none"
  /\ wss = FALSE /\ wssLib = "none"
  /\ consoleReporter = NoReporter
  /\ fs = NoFs
  /\ printed = {}
  /\ listeners = {}
  /\ Blank

\* the monolith in headed mode once start() has returned: the build is done,
\* the server listens, no browser could be opened automatically, the SIGINT
\* handler is installed and no reporter exists yet
MonolithServing ==
  /\ variant = "monolith"
  /\ headless = FALSE
  /\ browser = "chrome"
  /\ pc = "served"
  /\ server = TRUE /\ httpLib = "listening"
  /\ wss = TRUE /\ wssLib = "open"
  /\ consoleReporter = NoReporter
  /\ fs = [ outDir |-> TRUE, build |-> "done", builds |-> 1, builtJs |-> TRUE,
            html |-> TRUE, runner |-> FALSE ]
  /\ printed = {"openManually"}
  /\ listeners = {"headed"}
  /\ Blank

\* runHeadlessBrowserMode of the modular code base after the server is up,
\* the reporter and the WebSocketManager are constructed and the
\* testsCompleted listener is registered (let testSuccess = false)
ModularServing ==
  /\ variant = "modular"
  /\ headless = TRUE
  /\ browser = "chrome"
  /\ pc = "relay"
  /\ server = TRUE /\ httpLib = "listening"
  /\ wss = TRUE /\ wssLib = "open"
  /\ consoleReporter = NewReporter
  /\ fs = [ outDir |-> TRUE, build |-> "done", builds |-> 1, builtJs |-> TRUE,
            html |-> TRUE, runner |-> FALSE ]
  /\ printed = {}
  /\ listeners = {}
  /\ Blank

\* the relay on its own, in either code base
InitRelay == MonolithServing \/ ModularServing

(* ---- variable groups -------------------------------------------------- *)

cfgVars == << variant, headless >>
fwdVars == << readyState, connected, messageQueue, offered, transmitted,
             openedAt >>
watchVars == << debounceTimer, rebuilding, changes, rebuilds >>
httpVars == << request, response >>
auxVars == << fwdVars, watchVars, httpVars >>
relayVars == << consoleReporter, testCompleted, testSuccess, emitted, log,
               rendered, msgCount >>
wireVars == << sent, inbox, handled >>
connVars == << wsClients, conn, wireVars >>
srvVars == << server, httpLib, wss, wssLib, closeCalls, cleanupCalls >>
brVars == << browserInst, page, jasmineFinished, flagSeen, engine >>
childVars == << child, childCode, childKilled, childRun >>
sigVars == << sigints, sigintExec >>

(* ---- the relay: connections ------------------------------------------- *)

\* Who connects: the served test page.  In a headless run that is the page
\* the driver has opened (its scripts run from goto() on); in headed mode
\* and in the modular relay any browser tab the user points at the server.
ClientPresent ==
  IF variant = "monolith" /\ headless THEN page \in {"open", "navigated"}
  ELSE TRUE

\* wss.on('connection'): the socket is pushed onto wsClients.  The upgrade
\* is accepted while the HTTP server listens and the WebSocketServer is open.
Connect(c) ==
  /\ Alive
  /\ httpLib = "listening" /\ wssLib = "open"
  /\ ClientPresent
  /\ conn[c] = "none"
  /\ conn' = [conn EXCEPT ![c] = "open"]
  /\ wsClients' = wsClients \cup {c}
  /\ UNCHANGED << wireVars, cfgVars, auxVars, browser, pc, exitCode, killed, pendingExit, fs,
                  printed, srvVars, relayVars, brVars, interrupted, listeners,
                  childVars, success, sigVars, hpc, cpc >>

\* ws.on('close') and ws.on('error'): the socket is filtered out of wsClients
ConnCloseKeepsClient(c) ==
  /\ Alive
  /\ conn[c] = "open"
  /\ conn' = [conn EXCEPT ![c] = "closed"]
  /\ UNCHANGED << wsClients, wireVars, cfgVars, auxVars, browser, pc, exitCode, killed,
                  pendingExit, fs, printed, srvVars, relayVars, brVars,
                  interrupted, listeners, childVars, success, sigVars, hpc,
                  cpc >>
ConnClose(c) ==
  /\ Alive
  /\ conn[c] = "open"
  /\ conn' = [conn EXCEPT ![c] = "closed"]
  /\ wsClients' = wsClients \ {c}
  /\ UNCHANGED << wireVars, cfgVars, auxVars, browser, pc, exitCode, killed, pendingExit, fs,
                  printed, srvVars, relayVars, brVars, interrupted, listeners,
                  childVars, success, sigVars, hpc, cpc >>

(* ---- the relay: messages ---------------------------------------------- *)

\* testSuccess = failureCount === 0
SuccessFlagWrong(failureCount) == failureCount >= 0
SuccessFlag(failureCount) == failureCount = 0

\* ViteJasminePreprocessor.handleWebSocketMessage(message)
HandleWebSocketMessage(m) ==
  LET r0 == IF consoleReporter.exists THEN consoleReporter ELSE NewReporter
  IN
  CASE m.type = "start" ->
         /\ consoleReporter' = JasmineStarted(r0)
         /\ log' = Append(log, LogEntry(m, -1))
         /\ UNCHANGED << testCompleted, testSuccess, printed, rendered >>
    [] m.type = "specDone" ->
         /\ consoleReporter' = SpecDone(r0, SpecResult(m, msgCount + 1))
         /\ log' = Append(log, LogEntry(m, -1))
         /\ UNCHANGED << testCompleted, testSuccess, printed, rendered >>
    [] m.type = "done" ->
         IF JasmineDoneThrows(r0)
           THEN /\ consoleReporter' = r0
                /\ printed' = printed \cup {"handlerError"}
                /\ rendered' = JasmineDoneRender(r0)
                /\ log' = Append(log, LogEntry(m, -1))
                /\ UNCHANGED << testCompleted, testSuccess >>
           ELSE /\ consoleReporter' = r0
                /\ printed' = printed \cup {"summary"}
                /\ rendered' = JasmineDoneRender(r0)
                /\ testCompleted' = TRUE
                /\ testSuccess' = SuccessFlag(JasmineDoneReturn(r0))
                /\ log' = Append(log, LogEntry(m, JasmineDoneReturn(r0)))
    [] OTHER ->
         /\ consoleReporter' = r0
         /\ printed' = printed \cup {"unknownType"}
         /\ log' = Append(log, LogEntry(m, -1))
         /\ UNCHANGED << testCompleted, testSuccess, rendered >>

\* WebSocketManager.handleWebSocketMessage(message); the emit runs the
\* listener of runHeadlessBrowserMode, which stores success in testSuccess
WsmHandleWebSocketMessage(m) ==
  CASE m.type = "start" ->
         /\ consoleReporter' = JasmineStarted(consoleReporter)
         /\ log' = Append(log, LogEntry(m, -1))
         /\ UNCHANGED << testSuccess, emitted, printed, rendered >>
    [] m.type = "specDone" ->
         /\ consoleReporter' = SpecDone(consoleReporter, SpecResult(m, msgCount + 1))
         /\ log' = Append(log, LogEntry(m, -1))
         /\ UNCHANGED << testSuccess, emitted, printed, rendered >>
    [] m.type = "done" ->
         IF JasmineDoneThrows(consoleReporter)
           THEN /\ printed' = printed \cup {"handlerError"}
                /\ rendered' = JasmineDoneRender(consoleReporter)
                /\ log' = Append(log, LogEntry(m, -1))
                /\ UNCHANGED << consoleReporter, testSuccess, emitted >>
           ELSE /\ printed' = printed \cup {"summary"}
                /\ rendered' = JasmineDoneRender(consoleReporter)
                /\ emitted' = Append(emitted, SuccessFlag(JasmineDoneReturn(consoleReporter)))
                /\ testSuccess' = SuccessFlag(JasmineDoneReturn(consoleReporter))
                /\ log' = Append(log, LogEntry(m, JasmineDoneReturn(consoleReporter)))
                /\ UNCHANGED consoleReporter
    [] OTHER ->
         /\ printed' = printed \cup {"unknownType"}
         /\ log' = Append(log, LogEntry(m, -1))
         /\ UNCHANGED << consoleReporter, testSuccess, emitted, rendered >>

\* ws.on('message') of the monolith: JSON.parse, then handleWebSocketMessage;
\* a frame that does not parse is logged and dropped.  Which frame the
\* socket hands over is decided by Arrive and Deliver.
ReceiveNoCatch(c, m) ==
  /\ Alive
  /\ variant = "monolith"
  /\ conn[c] = "open"
  /\ msgCount' = msgCount + 1
  /\ IF m.type = "garbage"
       THEN /\ printed' = printed \cup {"uncaughtException"}
            /\ exitCode' = "1"
            /\ UNCHANGED << consoleReporter, testCompleted, testSuccess, log,
                            rendered >>
       ELSE /\ HandleWebSocketMessage(m)
            /\ UNCHANGED exitCode
  /\ UNCHANGED << emitted, cfgVars, auxVars, browser, pc, killed, pendingExit,
                  fs, srvVars, wsClients, conn, brVars, interrupted,
                  listeners, childVars, success, sigVars, hpc, cpc >>
ReceiveStopsOnDone(c, m) ==
  /\ Alive
  /\ variant = "monolith"
  /\ conn[c] = "open"
  /\ msgCount' = msgCount + 1
  /\ IF m.type = "garbage"
       THEN /\ printed' = printed \cup {"parseError"}
            /\ UNCHANGED << consoleReporter, testCompleted, testSuccess, log,
                            rendered >>
       ELSE HandleWebSocketMessage(m)
  /\ exitCode' = IF m.type = "done" THEN "0" ELSE exitCode
  /\ UNCHANGED << emitted, cfgVars, auxVars, browser, pc, killed, pendingExit,
                  fs, srvVars, wsClients, conn, brVars, interrupted,
                  listeners, childVars, success, sigVars, hpc, cpc >>
Receive(c, m) ==
  /\ Alive
  /\ variant = "monolith"
  /\ conn[c] = "open"
  /\ msgCount' = msgCount + 1
  /\ IF m.type = "garbage"
       THEN /\ printed' = printed \cup {"parseError"}
            /\ UNCHANGED << consoleReporter, testCompleted, testSuccess, log,
                            rendered >>
       ELSE HandleWebSocketMessage(m)
  /\ UNCHANGED << emitted, cfgVars, auxVars, browser, pc, exitCode, killed, pendingExit,
                  fs, srvVars, wsClients, conn, brVars, interrupted,
                  listeners, childVars, success, sigVars, hpc, cpc >>

\* ws.on('message') of WebSocketManager
WsmReceive(c, m) ==
  /\ Alive
  /\ variant = "modular"
  /\ conn[c] = "open"
  /\ msgCount' = msgCount + 1
  /\ IF m.type = "garbage"
       THEN /\ printed' = printed \cup {"parseError"}
            /\ UNCHANGED << consoleReporter, testSuccess, emitted, log,
                            rendered >>
       ELSE WsmHandleWebSocketMessage(m)
  /\ UNCHANGED << testCompleted, cfgVars, auxVars, browser, pc, exitCode, killed,
                  pendingExit, fs, srvVars, wsClients, conn, brVars,
                  interrupted, listeners, childVars, success, sigVars, hpc,
                  cpc >>

(* ---- the relay: frames on a socket ------------------------------------ *)

\* the socket of c emits 'message' with frame m
Handed(c, m) == handled' = [handled EXCEPT ![c] = Append(@, m)]

\* a frame is sent on c and handled at once by the monolith
Arrive(c, m) ==
  /\ inbox[c] = << >>
  /\ Receive(c, m)
  /\ sent' = [sent EXCEPT ![c] = Append(@, m)]
  /\ Handed(c, m)
  /\ UNCHANGED inbox

\* a frame is sent on c and handled at once by WebSocketManager
WsmArrive(c, m) ==
  /\ inbox[c] = << >>
  /\ WsmReceive(c, m)
  /\ sent' = [sent EXCEPT ![c] = Append(@, m)]
  /\ Handed(c, m)
  /\ UNCHANGED inbox

\* the client of c sends a frame; it is in flight until the socket emits
\* its 'message' event
Send(c, m) ==
  /\ Alive
  /\ conn[c] = "open"
  /\ sent' = [sent EXCEPT ![c] = Append(@, m)]
  /\ inbox' = [inbox EXCEPT ![c] = Append(@, m)]
  /\ UNCHANGED << handled, wsClients, conn, cfgVars, auxVars, browser, pc, exitCode,
                  killed, pendingExit, fs, printed, srvVars, relayVars, brVars,
                  interrupted, listeners, childVars, success, sigVars, hpc,
                  cpc >>

\* the socket emits 'message' for the oldest frame in flight and the
\* handler of the monolith runs to completion
DeliverAny(c) ==
  /\ inbox[c] # << >>
  /\ \E i \in 1..Len(inbox[c]) :
       /\ Receive(c, inbox[c][i])
       /\ Handed(c, inbox[c][i])
       /\ inbox' = [inbox EXCEPT ![c] =
                      SubSeq(@, 1, i - 1) \o SubSeq(@, i + 1, Len(@))]
  /\ UNCHANGED sent
Deliver(c) ==
  /\ inbox[c] # << >>
  /\ Receive(c, Head(inbox[c]))
  /\ Handed(c, Head(inbox[c]))
  /\ inbox' = [inbox EXCEPT ![c] = Tail(@)]
  /\ UNCHANGED sent

\* the same for the socket handler of WebSocketManager
WsmDeliver(c) ==
  /\ inbox[c] # << >>
  /\ WsmReceive(c, Head(inbox[c]))
  /\ Handed(c, Head(inbox[c]))
  /\ inbox' = [inbox EXCEPT ![c] = Tail(@)]
  /\ UNCHANGED sent

(* ---- cleanup() --------------------------------------------------------- *)

NoOpenConn == \A c \in ConnIds : conn[c] # "open"

\* exit code the caller of cleanup() passes to process.exit afterwards:
\* start() uses success ? 0 : 1 (or 1 in its catch), the page-close and
\* SIGINT handlers of headed mode use 0; a user of the class gets the
\* promise back and the process goes on
CodeAfterCleanup(t) ==
  CASE t = "main" -> pendingExit
    [] t = "api" -> "none"
    [] OTHER -> "0"

\* cleanup() from `if (this.server)` on.  server.close() on a server that is
\* no longer listening calls back with an error, which rejects cleanup();
\* otherwise the caller is suspended until the server has closed.  With no
\* server left, wsClients is emptied, cleanup() returns and the caller exits.
CleanupServerPart(t, code) ==
  IF server
    THEN /\ closeCalls' = [closeCalls EXCEPT !.server = @ + 1]
         /\ IF httpLib = "listening"
              THEN /\ httpLib' = "closing"
                   /\ cpc' = [cpc EXCEPT ![t] = "awaitServer"]
              ELSE /\ UNCHANGED httpLib
                   /\ cpc' = [cpc EXCEPT ![t] = "serverError"]
         /\ UNCHANGED << server, wsClients, exitCode >>
    ELSE /\ wsClients' = {}
         /\ cpc' = [cpc EXCEPT ![t] = "done"]
         /\ exitCode' = code
         /\ UNCHANGED << server, httpLib, closeCalls >>

\* cleanup() up to its first suspension: `if (this.wss)` calls wss.close()
\* and waits for its callback
CleanupEnter(t, code) ==
  /\ cleanupCalls' = cleanupCalls + 1
  /\ IF wss
       THEN /\ closeCalls' = [closeCalls EXCEPT !.wss = @ + 1]
            /\ wssLib' = IF wssLib = "open" THEN "closing" ELSE wssLib
            /\ cpc' = [cpc EXCEPT ![t] = "awaitWss"]
            /\ UNCHANGED << wss, server, httpLib, wsClients, exitCode >>
       ELSE /\ CleanupServerPart(t, code)
            /\ UNCHANGED << wss, wssLib >>

\* the callback of wss.close(): the WebSocketServer emits 'close' once no
\* client socket is left; then this.wss = null and cleanup() goes on
CleanupWssClosed(t) ==
  /\ Alive
  /\ cpc[t] = "awaitWss"
  /\ wssLib = "closed" \/ NoOpenConn
  /\ wssLib' = "closed"
  /\ wss' = FALSE
  /\ CleanupServerPart(t, CodeAfterCleanup(t))
  /\ UNCHANGED << cfgVars, auxVars, browser, pc, killed, pendingExit, fs, printed, conn,
                  wireVars,
                  relayVars, brVars, interrupted, listeners, childVars, success,
                  sigVars, hpc, cleanupCalls >>

\* the callback of server.close() without error: every connection has
\* ended; this.server = null, this.wsClients = [], and the caller exits
CleanupServerClosedKeepsRef(t) ==
  /\ Alive
  /\ cpc[t] = "awaitServer"
  /\ NoOpenConn
  /\ httpLib' = "closed"
  /\ wsClients' = {}
  /\ cpc' = [cpc EXCEPT ![t] = "done"]
  /\ exitCode' = CodeAfterCleanup(t)
  /\ UNCHANGED << cfgVars, auxVars, browser, pc, killed, pendingExit, fs, printed, conn,
                  wireVars,
                  server, wss, wssLib, closeCalls, cleanupCalls, relayVars,
                  brVars, interrupted, listeners, childVars, success, sigVars,
                  hpc >>
CleanupServerClosed(t) ==
  /\ Alive
  /\ cpc[t] = "awaitServer"
  /\ NoOpenConn
  /\ httpLib' = "closed"
  /\ server' = FALSE
  /\ wsClients' = {}
  /\ cpc' = [cpc EXCEPT ![t] = "done"]
  /\ exitCode' = CodeAfterCleanup(t)
  /\ UNCHANGED << cfgVars, auxVars, browser, pc, killed, pendingExit, fs, printed, conn,
                  wireVars,
                  wss, wssLib, closeCalls, cleanupCalls, relayVars, brVars,
                  interrupted, listeners, childVars, success, sigVars, hpc >>

\* the callback of server.close() with an error: cleanup() rejects inside an
\* async event handler, which never reaches its process.exit
CleanupServerError(t) ==
  /\ Alive
  /\ cpc[t] = "serverError"
  /\ cpc' = [cpc EXCEPT ![t] = "rejected"]
  /\ hpc' = [hpc EXCEPT ![t] = "rejected"]
  /\ UNCHANGED << cfgVars, auxVars, browser, pc, exitCode, killed, pendingExit, fs,
                  printed, srvVars, connVars, relayVars, brVars, interrupted,
                  listeners, childVars, success, sigVars >>

\* cleanup() called by a user of the class once the previous call, if any,
\* has settled; the promise is returned and the process goes on
ApiCleanup ==
  /\ Alive
  /\ cpc["api"] \in {"none", "done"}
  /\ cleanupCalls < MaxCleanupCalls
  /\ CleanupEnter("api", CodeAfterCleanup("api"))
  /\ UNCHANGED << cfgVars, auxVars, browser, pc, killed, pendingExit, fs, printed, conn,
                  wireVars,
                  relayVars, brVars, interrupted, listeners, childVars, success,
                  sigVars, hpc >>

(* ---- start(): build ---------------------------------------------------- *)

\* process.exit(code) with nothing else touched by the step
ExitOnly(code, msgs) ==
  /\ exitCode' = code
  /\ printed' = printed \cup msgs
  /\ UNCHANGED << cfgVars, auxVars, browser, pc, killed, pendingExit, srvVars,
                  connVars, relayVars, brVars, interrupted, listeners,
                  childVars, success, sigVars, hpc, cpc >>

\* start() up to `await this.preprocess()`: the paths are resolved, outDir
\* is created when missing, and preprocess() begins with discoverFiles()
Start ==
  /\ Alive /\ variant = "monolith"
  /\ pc = "idle"
  /\ pc' = "discover"
  /\ fs' = [fs EXCEPT !.outDir = TRUE]
  /\ UNCHANGED << cfgVars, auxVars, browser, exitCode, killed, pendingExit, printed,
                  srvVars, connVars, relayVars, brVars, interrupted, listeners,
                  childVars, success, sigVars, hpc, cpc >>

\* preprocess() throws: its catch prints and rethrows, the catch of start()
\* prints 'Build failed' and calls process.exit(1)
PreprocessFailedGoesOn(msgs) ==
  /\ printed' = printed \cup msgs \cup {"preprocessFailed", "buildFailed"}
  /\ pc' = "select"
  /\ UNCHANGED << cfgVars, auxVars, browser, exitCode, killed, pendingExit, srvVars,
                  connVars, relayVars, brVars, interrupted, listeners,
                  childVars, success, sigVars, hpc, cpc >>
PreprocessFailed(msgs) ==
  ExitOnly("1", msgs \cup {"preprocessFailed", "buildFailed"})

\* preprocess() after discoverFiles(): glob may reject, or find no test
\* file; both throw, start() prints 'Build failed' and exits with 1.
\* Otherwise outDir is ensured and viteBuild() is started.
PreprocessDiscoverNoAwait(outcome) ==
  /\ Alive
  /\ pc = "discover"
  /\ CASE outcome = "globFail" ->
            /\ PreprocessFailed({"discoverError"})
            /\ UNCHANGED fs
       [] outcome = "noTests" ->
            /\ PreprocessFailed({})
            /\ UNCHANGED fs
       [] OTHER ->
            /\ pc' = "select"
            /\ fs' = [fs EXCEPT !.build = "running", !.builds = @ + 1]
            /\ UNCHANGED << cfgVars, auxVars, browser, exitCode, killed, pendingExit,
                            printed, srvVars, connVars, relayVars, brVars,
                            interrupted, listeners, childVars, success,
                            sigVars, hpc, cpc >>
PreprocessDiscover(outcome) ==
  /\ Alive
  /\ pc = "discover"
  /\ CASE outcome = "globFail" ->
            /\ PreprocessFailed({"discoverError"})
            /\ UNCHANGED fs
       [] outcome = "noTests" ->
            /\ PreprocessFailed({})
            /\ UNCHANGED fs
       [] OTHER ->
            /\ pc' = "build"
            /\ fs' = [fs EXCEPT !.build = "running", !.builds = @ + 1]
            /\ UNCHANGED << cfgVars, auxVars, browser, exitCode, killed, pendingExit,
                            printed, srvVars, connVars, relayVars, brVars,
                            interrupted, listeners, childVars, success,
                            sigVars, hpc, cpc >>


\* viteBuild() settles.  On success generateHtmlFile() writes index.html when
\* outDir holds built .js files, and generateTestRunner() writes
\* test-runner.js in headless Node mode; js says whether outDir holds any.
BuildFinish(ok, js) ==
  /\ Alive
  /\ pc = "build"
  /\ IF ~ok
       THEN /\ PreprocessFailed({})
            /\ fs' = [fs EXCEPT !.build = "failed"]
       ELSE /\ pc' = "select"
            /\ fs' = [fs EXCEPT !.build = "done", !.builtJs = js, !.html = js,
                                !.runner = (js /\ headless /\ browser = "node")]
            /\ UNCHANGED << cfgVars, auxVars, browser, exitCode, killed, pendingExit,
                            printed, srvVars, connVars, relayVars, brVars,
                            interrupted, listeners, childVars, success,
                            sigVars, hpc, cpc >>

(* ---- start(): driver selection ---------------------------------------- *)

\* the if / else-if chain of start() after the build
ModeOfWrong(h, b) ==
  CASE h /\ b # "node" -> "headlessBrowser"
    [] h /\ b = "node" -> "headlessNode"
    [] OTHER -> "headed"
ModeOf(h, b) ==
  CASE h /\ b # "node" -> "headlessBrowser"
    [] h /\ b = "node" -> "headlessNode"
    [] ~h /\ b = "node" -> "invalid"
    [] OTHER -> "headed"

(* ---- start(): the child-process driver --------------------------------- *)

\* runHeadlessTests() up to the point where its promise is pending: without
\* test-runner.js it resolves false at once; otherwise the child is spawned
\* and the SIGINT listener installed.  site is the call site in start(),
\* msgs what the caller has printed in the same step.
RunHeadlessTestsEnter(site, runnerExists, msgs) ==
  IF ~runnerExists
    THEN /\ printed' = printed \cup msgs \cup {"runnerNotFound"}
         /\ success' = FALSE
         /\ pc' = IF site = "node" THEN "resolvedNode" ELSE "resolvedFallback"
         /\ UNCHANGED << childVars, listeners, interrupted >>
    ELSE /\ child' = "running"
         /\ interrupted' = FALSE
         /\ listeners' = listeners \cup {"child"}
         /\ pc' = IF site = "node" THEN "childNode" ELSE "childFallback"
         /\ printed' = printed \cup msgs
         /\ UNCHANGED << childCode, childKilled, childRun, success >>

\* start() in headless Node mode
RunHeadlessNode ==
  /\ Alive
  /\ pc = "select"
  /\ ModeOf(headless, browser) = "headlessNode"
  /\ RunHeadlessTestsEnter("node", fs.runner, {})
  /\ UNCHANGED << cfgVars, auxVars, browser, exitCode, killed, pendingExit, fs, srvVars,
                  connVars, relayVars, brVars, sigVars, hpc, cpc >>

\* resolve(success) of child.on('close'): false when interrupted
ChildResultNoInterruptCheck(isInterrupted, code) == code = "0"
ChildResultAnyCode(isInterrupted, code) == ~isInterrupted
ChildResult(isInterrupted, code) == IF isInterrupted THEN FALSE ELSE code = "0"

\* what can happen inside the generated runner: how many specs failed,
\* whether importing or executing the specs threw, and what env.reporter
\* evaluates to in the jasmine-core that is loaded
RunnerRuns ==
  [ failures : 0..MaxFailures, threw : BOOLEAN,
    envReporter : {"undefined", "object"} ]

\* the `failures` of the finally block of the generated runner:
\* reporter ? reporter.failureCount : 0 with reporter = env.reporter, which
\* is not the ConsoleReporter that was added
RunnerFailures(run) ==
  IF run.envReporter = "undefined" THEN "0" ELSE "undefined"

\* exit code of the generated runner: the catch schedules process.exit(1)
\* first; otherwise finally schedules process.exit(failures === 0 ? 0 : 1)
RunnerExitCode(run) ==
  IF run.threw THEN "1"
  ELSE IF RunnerFailures(run) = "0" THEN "0" ELSE "1"

\* the finally block of NodeTestRunnerGenerator.generateRunnerTemplate:
\* failures = consoleReporter.failureCount || 0
WsmRunnerExitCode(run) ==
  IF run.threw THEN "1"
  ELSE IF run.failures = 0 THEN "0" ELSE "1"

\* child.on('close', code): the listener is removed and the promise
\* resolved.  The code is the runner's exit code, or null when a signal
\* ended the child.
ChildClose(run, signalled) ==
  LET code == IF signalled THEN "null" ELSE RunnerExitCode(run)
  IN
  /\ Alive
  /\ pc \in {"childNode", "childFallback"}
  /\ child = "running"
  /\ child' = "closed"
  /\ childCode' = code
  /\ childRun' = run
  /\ listeners' = listeners \ {"child"}
  /\ success' = ChildResult(interrupted, code)
  /\ pc' = IF pc = "childNode" THEN "resolvedNode" ELSE "resolvedFallback"
  /\ UNCHANGED << cfgVars, auxVars, browser, exitCode, killed, pendingExit, fs, printed,
                  srvVars, connVars, relayVars, brVars, interrupted,
                  childKilled, sigVars, hpc, cpc >>

\* child.on('error'): spawn failed; resolve(false)
ChildError ==
  /\ Alive
  /\ pc \in {"childNode", "childFallback"}
  /\ child = "running"
  /\ child' = "error"
  /\ listeners' = listeners \ {"child"}
  /\ printed' = printed \cup {"childError"}
  /\ success' = FALSE
  /\ pc' = IF pc = "childNode" THEN "resolvedNode" ELSE "resolvedFallback"
  /\ UNCHANGED << cfgVars, auxVars, browser, exitCode, killed, pendingExit, fs, srvVars,
                  connVars, relayVars, brVars, interrupted, childCode, childRun,
                  childKilled, sigVars, hpc, cpc >>

\* success ? 0 : 1
ExitCodeOf(ok) == IF ok THEN "0" ELSE "1"

\* start() after `await this.runHeadlessTests()` in headless Node mode
ExitNode ==
  /\ Alive
  /\ pc = "resolvedNode"
  /\ ExitOnly(ExitCodeOf(success), {})
  /\ UNCHANGED fs

\* start() after `await this.runHeadlessTests()` on the fallback path:
\* cleanup(), then process.exit(success ? 0 : 1)
ExitFallback ==
  /\ Alive
  /\ pc = "resolvedFallback"
  /\ pc' = "cleanup"
  /\ pendingExit' = ExitCodeOf(success)
  /\ CleanupEnter("main", ExitCodeOf(success))
  /\ UNCHANGED << cfgVars, auxVars, browser, killed, fs, printed, conn, wireVars, relayVars,
                  brVars, interrupted, listeners, childVars, success, sigVars,
                  hpc >>

\* start() with headless false and browser 'node'
InvalidConfiguration ==
  /\ Alive
  /\ pc = "select"
  /\ ModeOf(headless, browser) = "invalid"
  /\ ExitOnly("1", {"invalidConfiguration"})
  /\ UNCHANGED fs

(* ---- start(): the HTTP server ------------------------------------------ *)

\* startSimpleServer() up to listen(): createServer() sets this.server and
\* createWebSocketServer() sets this.wss on it
StartSimpleServer ==
  /\ Alive
  /\ pc = "select"
  /\ ModeOf(headless, browser) \in {"headlessBrowser", "headed"}
  /\ server' = TRUE /\ httpLib' = "created"
  /\ wss' = TRUE /\ wssLib' = "open"
  /\ pc' = "listen"
  /\ UNCHANGED << cfgVars, auxVars, browser, exitCode, killed, pendingExit, fs, printed,
                  closeCalls, cleanupCalls, connVars, relayVars, brVars,
                  interrupted, listeners, childVars, success, sigVars, hpc,
                  cpc >>

\* the listen callback: headless mode goes on to waitForServerReady(),
\* headed mode to openBrowser()
ListenOk ==
  /\ Alive
  /\ pc = "listen"
  /\ httpLib' = "listening"
  /\ pc' = IF headless THEN "waitReady" ELSE "openBrowser"
  /\ UNCHANGED << cfgVars, auxVars, browser, exitCode, killed, pendingExit, fs, printed,
                  server, wss, wssLib, closeCalls, cleanupCalls, connVars,
                  relayVars, brVars, interrupted, listeners, childVars, success,
                  sigVars, hpc, cpc >>

\* server 'error' (port in use): startSimpleServer() rejects, start()
\* rejects, and the CLI entry point exits with 1
ListenError ==
  /\ Alive
  /\ pc = "listen"
  /\ ExitOnly("1", {"serverError", "startFailed"})
  /\ UNCHANGED fs

\* waitForServerReady() returns; this.consoleReporter = new ConsoleReporter();
\* checkBrowser() starts importing playwright
ServerReady ==
  /\ Alive
  /\ pc = "waitReady"
  /\ consoleReporter' = NewReporter
  /\ log' = << >>
  /\ pc' = "checkBrowser"
  /\ UNCHANGED << cfgVars, auxVars, browser, exitCode, killed, pendingExit, fs, printed,
                  srvVars, connVars, testCompleted, testSuccess, emitted,
                  rendered, msgCount, brVars, interrupted, listeners, childVars, success,
                  sigVars, hpc, cpc >>

\* waitForServerReady() throws after its timeout: start() rejects and the
\* CLI entry point exits with 1
ServerNotReady ==
  /\ Alive
  /\ pc = "waitReady"
  /\ ExitOnly("1", {"startFailed"})
  /\ UNCHANGED fs

(* ---- start(): the headless browser driver ------------------------------ *)

\* the switch on the browser name: the playwright engine of a known name
EngineOf(name) ==
  CASE name \in {"chromium", "chrome"} -> "chromium"
    [] name = "firefox" -> "firefox"
    [] name \in {"webkit", "safari"} -> "webkit"
    [] OTHER -> "none"

\* checkBrowser(name): a browser type for a known name when playwright can
\* be imported, null otherwise
CheckBrowserResult(name, playwright) ==
  IF EngineOf(name) # "none" /\ playwright THEN "browserType" ELSE "null"

\* start() after `await this.checkBrowser()`.  null: the notice is logged,
\* config.browser becomes 'node', generateTestRunner() and runHeadlessTests()
\* run.  Otherwise runHeadlessBrowserTests() calls launch().
CheckBrowser(playwright) ==
  /\ Alive
  /\ pc = "checkBrowser"
  /\ IF CheckBrowserResult(browser, playwright) = "null"
       THEN /\ browser' = "node"
            /\ fs' = [fs EXCEPT !.runner = fs.builtJs]
            /\ RunHeadlessTestsEnter("fallback", fs.builtJs, {"fallbackNotice"})
            /\ UNCHANGED << cfgVars, auxVars, exitCode, killed, pendingExit, srvVars,
                            connVars, relayVars, brVars, sigVars, hpc, cpc >>
       ELSE /\ pc' = "launch"
            /\ UNCHANGED << cfgVars, auxVars, browser, exitCode, killed, pendingExit,
                            fs, printed, srvVars, connVars, relayVars, brVars,
                            interrupted, listeners, childVars, success,
                            sigVars, hpc, cpc >>

\* the catch of start() around runHeadlessBrowserTests(): the error is
\* printed, cleanup() runs, then process.exit(1)
StartCatchExitsZero(msgs) ==
  /\ printed' = printed \cup msgs \cup {"browserExecFailed"}
  /\ pc' = "cleanup"
  /\ pendingExit' = "0"
  /\ CleanupEnter("main", "0")
StartCatch(msgs) ==
  /\ printed' = printed \cup msgs \cup {"browserExecFailed"}
  /\ pc' = "cleanup"
  /\ pendingExit' = "1"
  /\ CleanupEnter("main", "1")

\* browserType.launch() resolves; newPage() is called
LaunchOk ==
  /\ Alive
  /\ pc = "launch"
  /\ browserInst' = "open"
  /\ engine' = EngineOf(browser)
  /\ pc' = "newPage"
  /\ UNCHANGED << cfgVars, auxVars, browser, exitCode, killed, pendingExit, fs, printed,
                  srvVars, connVars, relayVars, page, jasmineFinished, flagSeen,
                  interrupted, listeners, childVars, success, sigVars, hpc,
                  cpc >>

\* what follows a launch() that rejects: runHeadlessBrowserTests() rejects
\* into the catch of start()
LaunchFailed ==
  /\ StartCatch({"launchError"})
  /\ UNCHANGED << cfgVars, auxVars, browser, killed, fs, conn, wireVars, relayVars, brVars,
                  interrupted, listeners, childVars, success, sigVars, hpc >>

\* browserType.launch() rejects (the engine is not installed or cannot start)
LaunchFail ==
  /\ Alive
  /\ pc = "launch"
  /\ LaunchFailed

\* browser.newPage() resolves: the SIGINT listener is installed with
\* process.once and page.goto() is called
NewPageOk ==
  /\ Alive
  /\ pc = "newPage"
  /\ page' = "open"
  /\ interrupted' = FALSE
  /\ listeners' = listeners \cup {"hb"}
  /\ pc' = "goto"
  /\ UNCHANGED << cfgVars, auxVars, browser, exitCode, killed, pendingExit, fs, printed,
                  srvVars, connVars, relayVars, browserInst, jasmineFinished, flagSeen, engine,
                  childVars, success, sigVars, hpc, cpc >>

\* browser.newPage() rejects: the browser stays open
NewPageFail ==
  /\ Alive
  /\ pc = "newPage"
  /\ StartCatch({})
  /\ UNCHANGED << cfgVars, auxVars, browser, killed, fs, conn, wireVars, relayVars, brVars,
                  interrupted, listeners, childVars, success, sigVars, hpc >>

\* page.goto() resolves; waitForFunction() starts polling jasmineFinished
GotoOk ==
  /\ Alive
  /\ pc = "goto"
  /\ page' = "navigated"
  /\ pc' = "waitForFunction"
  /\ UNCHANGED << cfgVars, auxVars, browser, exitCode, killed, pendingExit, fs, printed,
                  srvVars, connVars, relayVars, browserInst, jasmineFinished, flagSeen, engine,
                  interrupted, listeners, childVars, success, sigVars, hpc,
                  cpc >>

\* page.goto() rejects before the try block: neither browser.close() nor
\* removeListener runs
GotoFail ==
  /\ Alive
  /\ pc = "goto"
  /\ StartCatch({})
  /\ UNCHANGED << cfgVars, auxVars, browser, killed, fs, conn, wireVars, relayVars, brVars,
                  interrupted, listeners, childVars, success, sigVars, hpc >>

\* the page's reporter sets window.jasmineFinished = true in jasmineDone
PageFinished ==
  /\ Alive
  /\ headless
  /\ page = "navigated"
  /\ ~jasmineFinished
  /\ jasmineFinished' = TRUE
  /\ UNCHANGED << cfgVars, auxVars, browser, pc, exitCode, killed, pendingExit, fs,
                  printed, srvVars, connVars, relayVars, browserInst, page, flagSeen, engine,
                  interrupted, listeners, childVars, success, sigVars, hpc,
                  cpc >>

\* the catch of runHeadlessBrowserTests(): browser.close() is awaited on
\* either branch
HbCatch ==
  /\ IF interrupted
       THEN /\ printed' = printed \cup {"abortedByUser"}
            /\ pc' = "closeAborted"
       ELSE /\ printed' = printed \cup {"testExecFailed"}
            /\ pc' = "closeThrow"
  /\ UNCHANGED << cfgVars, auxVars, browser, exitCode, killed, pendingExit, fs, srvVars,
                  connVars, relayVars, brVars, interrupted, listeners,
                  childVars, success, sigVars, hpc, cpc >>

\* waitForFunction() resolves: the flag was observed; the 500 ms buffer starts
WaitResolved ==
  /\ Alive
  /\ pc = "waitForFunction"
  /\ jasmineFinished
  /\ flagSeen' = TRUE
  /\ pc' = "buffer"
  /\ UNCHANGED << cfgVars, auxVars, browser, exitCode, killed, pendingExit, fs, printed,
                  srvVars, connVars, relayVars, browserInst, page, engine,
                  jasmineFinished, interrupted, listeners, childVars, success,
                  sigVars, hpc, cpc >>

\* waitForFunction() rejects: its timeout expired or the page went away
WaitRejected ==
  /\ Alive
  /\ pc = "waitForFunction"
  /\ HbCatch

\* the check after the buffer: without testCompleted an error is thrown
\* into the catch, with it browser.close() is awaited
NoResultsWrong(completed) == FALSE
NoResults(completed) == ~completed

BufferElapsed ==
  /\ Alive
  /\ pc = "buffer"
  /\ IF NoResults(testCompleted)
       THEN HbCatch
       ELSE /\ pc' = "closeOk"
            /\ UNCHANGED << cfgVars, auxVars, browser, exitCode, killed, pendingExit,
                            fs, printed, srvVars, connVars, relayVars, brVars,
                            interrupted, listeners, childVars, success,
                            sigVars, hpc, cpc >>

\* what runHeadlessBrowserTests() returns after the flag and a `done`
HeadlessVerdictWrong(ok) == TRUE
HeadlessVerdict(ok) == ok

\* browser.close() resolves.  After the try body, this.testSuccess is
\* returned; after an interrupt, false; otherwise the error is rethrown into
\* the catch of start().  finally removes the SIGINT listener, and start()
\* goes on with cleanup() and process.exit.
BrowserClosed ==
  /\ Alive
  /\ pc \in {"closeOk", "closeAborted", "closeThrow"}
  /\ browserInst' = "closed"
  /\ page' = "closed"
  /\ listeners' = listeners \ {"hb"}
  /\ LET ret == CASE pc = "closeOk" -> HeadlessVerdict(testSuccess)
                  [] OTHER -> FALSE
     IN /\ success' = ret
        /\ pendingExit' = ExitCodeOf(ret)
        /\ CleanupEnter("main", ExitCodeOf(ret))
  /\ printed' = IF pc = "closeThrow" THEN printed \cup {"browserExecFailed"}
                ELSE printed
  /\ pc' = "cleanup"
  /\ UNCHANGED << cfgVars, auxVars, browser, killed, fs, conn, wireVars, relayVars,
                  jasmineFinished, flagSeen, engine, interrupted, childVars, sigVars,
                  hpc >>

(* ---- start(): headed mode ---------------------------------------------- *)

\* the switch of openBrowser(): an unknown name is replaced by Chromium
OpenBrowserEngine(name) ==
  IF EngineOf(name) # "none" THEN EngineOf(name) ELSE "chromium"

\* openBrowser() and the rest of start().  playwright may be missing, launch
\* may fail, goto may fail (all are logged and swallowed); on success the
\* page 'close' handler is registered.  start() then installs its SIGINT
\* handler with process.on and returns.
OpenBrowser(outcome) ==
  /\ Alive
  /\ pc = "openBrowser"
  /\ LET warn == IF EngineOf(browser) = "none" /\ outcome # "noPlaywright"
                   THEN {"usingChromeInstead"} ELSE {}
     IN CASE outcome = "ok" ->
               /\ browserInst' = "open" /\ page' = "navigated"
               /\ engine' = OpenBrowserEngine(browser)
               /\ printed' = printed \cup warn
          [] outcome = "gotoFail" ->
               /\ browserInst' = "open" /\ page' = "open"
               /\ engine' = OpenBrowserEngine(browser)
               /\ printed' = printed \cup warn \cup {"openManually"}
          [] OTHER ->
               /\ UNCHANGED << browserInst, page, engine >>
               /\ printed' = printed \cup warn \cup {"openManually"}
  /\ listeners' = listeners \cup {"headed"}
  /\ pc' = "served"
  /\ UNCHANGED << cfgVars, auxVars, browser, exitCode, killed, pendingExit, fs, srvVars,
                  connVars, relayVars, jasmineFinished, flagSeen, interrupted,
                  childVars, success, sigVars, hpc, cpc >>

\* exit code of the page 'close' handler and of the SIGINT handler of
\* headed mode
HeadedExitCode == "0"

\* page.on('close') of openBrowser(): testsAborted() is called on the
\* reporter, if there is one, when no `done` was processed; then cleanup()
\* and process.exit(0)
PageClose ==
  /\ Alive
  /\ ~headless
  /\ page = "navigated"
  /\ hpc["pageClose"] = "idle"
  /\ page' = "closed"
  /\ hpc' = [hpc EXCEPT !["pageClose"] = "cleanup"]
  /\ printed' = IF ~testCompleted /\ consoleReporter.exists
                  THEN printed \cup {"testsAborted"} ELSE printed
  /\ CleanupEnter("pageClose", HeadedExitCode)
  /\ UNCHANGED << cfgVars, auxVars, browser, pc, killed, pendingExit, fs, conn, wireVars,
                  relayVars, browserInst, jasmineFinished, flagSeen, engine, interrupted,
                  listeners, childVars, success, sigVars >>

(* ---- SIGINT ------------------------------------------------------------ *)

\* a driver is running
Executing ==
  pc \in {"launch", "newPage", "goto", "waitForFunction", "buffer", "closeOk",
          "closeAborted", "closeThrow", "childNode", "childFallback", "served"}

\* SIGINT with no listener installed: the default disposition ends the process
SigintDefault ==
  /\ Alive /\ variant = "monolith"
  /\ pc # "idle"
  /\ sigints < MaxSigints
  /\ listeners = {}
  /\ sigints' = sigints + 1
  /\ sigintExec' = (sigintExec \/ Executing)
  /\ killed' = TRUE
  /\ UNCHANGED << cfgVars, auxVars, browser, pc, exitCode, pendingExit, fs, printed,
                  srvVars, connVars, relayVars, brVars, interrupted, listeners,
                  childVars, success, hpc, cpc >>

\* sigintHandler of runHeadlessBrowserTests(), installed with process.once
SigintHeadlessBrowser ==
  /\ Alive
  /\ sigints < MaxSigints
  /\ "hb" \in listeners
  /\ sigints' = sigints + 1
  /\ sigintExec' = (sigintExec \/ Executing)
  /\ interrupted' = TRUE
  /\ listeners' = listeners \ {"hb"}
  /\ UNCHANGED << cfgVars, auxVars, browser, pc, exitCode, killed, pendingExit, fs,
                  printed, srvVars, connVars, relayVars, brVars, childVars,
                  success, hpc, cpc >>

\* sigintHandler of runHeadlessTests(), installed with process.once
SigintChild ==
  /\ Alive
  /\ sigints < MaxSigints
  /\ "child" \in listeners
  /\ sigints' = sigints + 1
  /\ sigintExec' = (sigintExec \/ Executing)
  /\ interrupted' = TRUE
  /\ printed' = printed \cup {"abortedByUser"}
  /\ childKilled' = TRUE
  /\ listeners' = listeners \ {"child"}
  /\ UNCHANGED << cfgVars, auxVars, browser, pc, exitCode, killed, pendingExit, fs,
                  srvVars, connVars, relayVars, brVars, child, childCode, childRun,
                  success, hpc, cpc >>

\* the SIGINT handler start() installs in headed mode with process.on:
\* cleanup(), then process.exit(0)
SigintHeaded ==
  /\ Alive
  /\ sigints < MaxSigints
  /\ "headed" \in listeners
  /\ hpc["sigint"] = "idle"
  /\ sigints' = sigints + 1
  /\ sigintExec' = (sigintExec \/ Executing)
  /\ hpc' = [hpc EXCEPT !["sigint"] = "cleanup"]
  /\ CleanupEnter("sigint", HeadedExitCode)
  /\ UNCHANGED << cfgVars, auxVars, browser, pc, killed, pendingExit, fs, printed, conn,
                  wireVars,
                  relayVars, brVars, interrupted, listeners, childVars,
                  success >>

\* a promise rejected inside an async event handler with nobody awaiting
\* it: the runtime may end the process with exit code 1
UnhandledRejection(t) ==
  /\ Alive
  /\ hpc[t] = "rejected"
  /\ ExitOnly("1", {"unhandledRejection"})
  /\ UNCHANGED fs

(* ---- specification ----------------------------------------------------- *)

\* a message arrives during a run
RunReceive ==
  /\ msgCount < MaxMsgs
  /\ \E c \in ConnIds, m \in Messages : Arrive(c, m)

\* a message arrives at the relay on its own
RelayReceive ==
  /\ msgCount < MaxRelayMsgs
  /\ \E c \in ConnIds, m \in Messages : Arrive(c, m) \/ WsmArrive(c, m)

Next ==
  \/ \E c \in ConnIds : Connect(c)
  \/ \E c \in ConnIds : ConnClose(c)
  \/ RunReceive
  \/ \E t \in Threads : CleanupWssClosed(t)
  \/ \E t \in Threads : CleanupServerClosed(t)
  \/ \E t \in {"pageClose", "sigint"} : CleanupServerError(t)
  \/ \E t \in {"pageClose", "sigint"} : UnhandledRejection(t)
  \/ Start
  \/ \E o \in {"globFail", "noTests", "ok"} : PreprocessDiscover(o)
  \/ \E ok \in BOOLEAN, js \in BOOLEAN : BuildFinish(ok, js)
  \/ RunHeadlessNode
  \/ \E run \in RunnerRuns, signalled \in BOOLEAN : ChildClose(run, signalled)
  \/ ChildError
  \/ ExitNode
  \/ ExitFallback
  \/ InvalidConfiguration
  \/ StartSimpleServer
  \/ ListenOk
  \/ ListenError
  \/ ServerReady
  \/ ServerNotReady
  \/ \E playwright \in BOOLEAN : CheckBrowser(playwright)
  \/ LaunchOk
  \/ LaunchFail
  \/ NewPageOk
  \/ NewPageFail
  \/ GotoOk
  \/ GotoFail
  \/ PageFinished
  \/ WaitResolved
  \/ WaitRejected
  \/ BufferElapsed
  \/ BrowserClosed
  \/ \E o \in {"ok", "gotoFail", "launchFail", "noPlaywright"} : OpenBrowser(o)
  \/ PageClose
  \/ SigintDefault
  \/ SigintHeadlessBrowser
  \/ SigintChild
  \/ SigintHeaded

Spec == Init /\ [][Next]_vars

NextRelay ==
  \/ \E c \in ConnIds : Connect(c)
  \/ \E c \in ConnIds : ConnClose(c)
  \/ RelayReceive

SpecRelay == InitRelay /\ [][NextRelay]_vars

\* an instance that serves and relays, released by calls of cleanup()
NextCleanup ==
  \/ \E c \in ConnIds : Connect(c)
  \/ \E c \in ConnIds : ConnClose(c)
  \/ RelayReceive
  \/ ApiCleanup
  \/ CleanupWssClosed("api")
  \/ CleanupServerClosed("api")

SpecCleanup == MonolithServing /\ [][NextCleanup]_vars

\* the same with the event loop running every callback that is ready: the
\* close callbacks of the two servers fire once the libraries allow them;
\* when a client connects, sends or disconnects is the client's choice
SpecCleanupLive ==
  /\ SpecCleanup
  /\ WF_vars(CleanupWssClosed("api"))
  /\ WF_vars(CleanupServerClosed("api"))

\* number of frames the clients have sent
TotalSent ==
  Cardinality({ ci \in ConnIds \X (1..MaxSent) : ci[2] <= Len(sent[ci[1]]) })

\* the relay with frames in flight between the client and the handler
NextOrder ==
  \/ \E c \in ConnIds : Connect(c)
  \/ \E c \in ConnIds : ConnClose(c)
  \/ /\ TotalSent < MaxSent
     /\ \E c \in ConnIds, m \in Messages : Send(c, m)
  \/ \E c \in ConnIds : Deliver(c)
  \/ \E c \in ConnIds : WsmDeliver(c)

SpecOrder == InitRelay /\ [][NextOrder]_vars

\* the events the page's forwarder sends before `done`
PageEvents ==
  { [type |-> "start", status |-> "-", fe |-> "-"] }
  \cup { [type |-> "specDone", status |-> st, fe |-> "array"] :
           st \in {"passed", "failed", "pending"} }

\* jasmineDone of the page's forwarder on an open socket: `done` is sent,
\* then window.jasmineFinished is set, in one synchronous function
PageJasmineDone(c) ==
  /\ Alive
  /\ conn[c] = "open"
  /\ page = "navigated"
  /\ ~jasmineFinished
  /\ sent' = [sent EXCEPT ![c] =
                Append(@, [type |-> "done", status |-> "-", fe |-> "-"])]
  /\ inbox' = [inbox EXCEPT ![c] =
                 Append(@, [type |-> "done", status |-> "-", fe |-> "-"])]
  /\ jasmineFinished' = TRUE
  /\ UNCHANGED << handled, wsClients, conn, cfgVars, auxVars, browser, pc, exitCode,
                  killed, pendingExit, fs, printed, srvVars, relayVars,
                  browserInst, page, flagSeen, engine, interrupted, listeners,
                  childVars, success, sigVars, hpc, cpc >>

\* runHeadlessBrowserTests() after page.goto() has resolved: the servers
\* are up, the browser and its page are open, the SIGINT listener is
\* installed and waitForFunction() is polling
HeadlessNavigated ==
  /\ variant = "monolith"
  /\ headless = TRUE
  /\ browser = "chrome"
  /\ pc = "waitForFunction"
  /\ server = TRUE /\ httpLib = "listening"
  /\ wss = TRUE /\ wssLib = "open"
  /\ consoleReporter = NewReporter
  /\ fs = [ outDir |-> TRUE, build |-> "done", builds |-> 1, builtJs |-> TRUE,
            html |-> TRUE, runner |-> FALSE ]
  /\ printed = {}
  /\ exitCode = "none" /\ killed = FALSE /\ pendingExit = "none"
  /\ wsClients = {}
  /\ conn = [c \in ConnIds |-> "none"]
  /\ sent = [c \in ConnIds |-> << >>]
  /\ inbox = [c \in ConnIds |-> << >>]
  /\ handled = [c \in ConnIds |-> << >>]
  /\ testCompleted = FALSE /\ testSuccess = FALSE
  /\ emitted = << >>
  /\ log = << >> /\ msgCount = 0
  /\ rendered = NoOutput
  /\ browserInst = "open" /\ page = "navigated" /\ jasmineFinished = FALSE
  /\ flagSeen = FALSE
  /\ engine = "chromium"
  /\ interrupted = FALSE
  /\ listeners = {"hb"}
  /\ child = "none" /\ childCode = "none" /\ childKilled = FALSE
  /\ childRun = NoRun
  /\ success = FALSE
  /\ sigints = 0 /\ sigintExec = FALSE
  /\ hpc = [t \in {"pageClose", "sigint"} |-> "idle"]
  /\ cpc = [t \in Threads |-> "none"]
  /\ closeCalls = [wss |-> 0, server |-> 0]
  /\ cleanupCalls = 0
  /\ AuxIdle

\* the page runs its suite and reports over the socket while
\* runHeadlessBrowserTests() waits for the flag, then for the buffer
NextVerdict ==
  \/ \E c \in ConnIds : Connect(c)
  \/ /\ TotalSent < MaxSent
     /\ ~jasmineFinished
     /\ \E c \in ConnIds, m \in PageEvents : Send(c, m)
  \/ \E c \in ConnIds : PageJasmineDone(c)
  \/ \E c \in ConnIds : Deliver(c)
  \/ WaitResolved
  \/ BufferElapsed
  \/ BrowserClosed
  \/ CleanupWssClosed("main")
  \/ CleanupServerClosed("main")
  \/ \E c \in ConnIds : ConnClose(c)

SpecVerdict == HeadlessNavigated /\ [][NextVerdict]_vars

(* ---- the test page: WebSocketEventForwarder ---------------------------- *)

\* the orchestrator's variables other than window.jasmineFinished
hostVars ==
  << cfgVars, browser, pc, exitCode, killed, pendingExit, fs, printed,
     srvVars, connVars, relayVars, browserInst, page, flagSeen, engine,
     interrupted, listeners, childVars, success, sigVars, hpc, cpc >>

\* the message a reporter callback builds; id numbers the calls of send
FwdMessage(type, status) ==
  [ id |-> Len(offered) + 1, type |-> type, status |-> status ]

\* this.send(message) outside onopen: ws.send when connected and the socket
\* is OPEN, otherwise the message is pushed on messageQueue
FwdSend(message) ==
  /\ offered' = Append(offered, message)
  /\ IF connected /\ readyState = "open"
       THEN /\ transmitted' = Append(transmitted, message)
            /\ UNCHANGED messageQueue
       ELSE /\ messageQueue' = Append(messageQueue, message)
            /\ UNCHANGED transmitted

\* jasmineStarted(suiteInfo): connect(), then send({type: 'start'}).
\* new WebSocket() either returns a socket that is CONNECTING or throws,
\* which connect() catches; in both cases send finds connected false
FwdJasmineStarted(created) ==
  /\ offered = << >>
  /\ readyState = "none"
  /\ readyState' = IF created THEN "connecting" ELSE "none"
  /\ offered' = Append(offered, FwdMessage("start", "-"))
  /\ messageQueue' = Append(messageQueue, FwdMessage("start", "-"))
  /\ UNCHANGED << connected, transmitted, openedAt, jasmineFinished,
                  watchVars, httpVars, hostVars >>

\* the suite is running: jasmineStarted was called and jasmineDone was not
SuiteRunning ==
  /\ offered # << >>
  /\ \A i \in 1..Len(offered) : offered[i].type # "done"

\* specDone(result): send({type: 'specDone', ...})
FwdSpecDone(status) ==
  /\ SuiteRunning
  /\ FwdSend(FwdMessage("specDone", status))
  /\ UNCHANGED << readyState, connected, openedAt, jasmineFinished,
                  watchVars, httpVars, hostVars >>

\* jasmineDone(result): send({type: 'done', ...}), then the page flag
FwdJasmineDone ==
  /\ SuiteRunning
  /\ FwdSend(FwdMessage("done", "-"))
  /\ jasmineFinished' = TRUE
  /\ UNCHANGED << readyState, connected, openedAt, watchVars, httpVars,
                  hostVars >>

\* the loop of onopen: while the queue is not empty, shift() its first
\* message and send it; out is what ws.send has been given so far
RECURSIVE FlushFromEnd(_, _)
FlushFromEnd(queue, out) ==
  IF queue = << >> THEN out
  ELSE FlushFromEnd(SubSeq(queue, 1, Len(queue) - 1),
                    Append(out, queue[Len(queue)]))
RECURSIVE Flush(_, _)
Flush(queue, out) ==
  IF queue = << >> THEN out
  ELSE Flush(Tail(queue), Append(out, Head(queue)))

\* ws.onopen: connected = true, then the queued messages are sent
WsOpen ==
  /\ readyState = "connecting"
  /\ readyState' = "open"
  /\ connected' = TRUE
  /\ transmitted' = Flush(messageQueue, transmitted)
  /\ messageQueue' = << >>
  /\ openedAt' = Len(offered)
  /\ UNCHANGED << offered, jasmineFinished, watchVars, httpVars, hostVars >>

\* ws.onclose and ws.onerror: connected = false.  The socket ends because
\* the server went away, the connection failed, or the timer of
\* jasmineDone called ws.close()
WsClosed ==
  /\ readyState \in {"connecting", "open"}
  /\ readyState' = "closed"
  /\ connected' = FALSE
  /\ UNCHANGED << messageQueue, offered, transmitted, openedAt,
                  jasmineFinished, watchVars, httpVars, hostVars >>

\* the page loaded by the headless browser runs its suite
NextPage ==
  \/ \E created \in BOOLEAN : FwdJasmineStarted(created)
  \/ /\ Len(offered) < MaxEvents
     /\ \E st \in {"passed", "failed", "pending"} : FwdSpecDone(st)
  \/ /\ Len(offered) < MaxEvents
     /\ FwdJasmineDone
  \/ WsOpen
  \/ WsClosed

SpecPage == HeadlessNavigated /\ [][NextPage]_vars

(* ---- watch mode: debouncedPreprocess ----------------------------------- *)

\* the orchestrator's variables, which the watcher and the request
\* handler leave alone
runVars ==
  << cfgVars, browser, pc, exitCode, killed, pendingExit, fs, printed,
     srvVars, connVars, relayVars, brVars, interrupted, listeners, childVars,
     success, sigVars, hpc, cpc >>

\* watcher.on('all'): debouncedPreprocess() clears the timer that is
\* pending, if any, and arms a new one of 300 ms
FileChange ==
  /\ changes < MaxChanges
  /\ changes' = changes + 1
  /\ debounceTimer' = "pending"
  /\ UNCHANGED << rebuilding, rebuilds, fwdVars, httpVars, runVars >>

\* the timer expires 300 ms after the latest change: its callback calls
\* preprocess() and is suspended at the await
TimerFires ==
  /\ debounceTimer = "pending"
  /\ debounceTimer' = "fired"
  /\ rebuilding' = rebuilding + 1
  /\ rebuilds' = rebuilds + 1
  /\ UNCHANGED << changes, fwdVars, httpVars, runVars >>

\* preprocess() settles; a rejection is caught and logged
RebuildSettles ==
  /\ rebuilding > 0
  /\ rebuilding' = rebuilding - 1
  /\ UNCHANGED << debounceTimer, changes, rebuilds, fwdVars, httpVars,
                  runVars >>

\* the runner in watch mode after start(): built once, watching, serving
NextWatch ==
  \/ FileChange
  \/ TimerFires
  \/ RebuildSettles

SpecWatch == MonolithServing /\ [][NextWatch]_vars

(* ---- the static file server: the request handler ---------------------- *)

\* outDir and the vendor directory next to the package's dist directory,
\* as absolute paths: sequences of names from the root
OutDir == << "proj", "dist" >>
VendorDir == << "pkg", "vendor" >>

\* the regular files on disk
Disk ==
  { << "proj", "dist", "index.html" >>,
    << "proj", "secret.txt" >>,
    << "pkg", "vendor", "jasmine.js" >>,
    << "pkg", "package.json" >> }

\* the text between two slashes of a request URL
RawSegments ==
  { "index.html", "jasmine.js", "secret.txt", "package.json", "vendor",
    "..", "%2e%2e", "..%2fsecret.txt", "%zz" }

RECURSIVE Urls(_)
Urls(n) ==
  IF n = 0 THEN { << >> }
  ELSE Urls(n - 1) \cup
       { Append(u, g) : u \in { v \in Urls(n - 1) : Len(v) = n - 1 },
                        g \in RawSegments }

\* decodeURIComponent on one raw segment: escapes are replaced, so an
\* encoded slash yields two segments; a malformed escape throws
Malformed(seg) == seg = "%zz"
DecodeSegment(seg) ==
  CASE seg = "%2e%2e" -> << ".." >>
    [] seg = "..%2fsecret.txt" -> << "..", "secret.txt" >>
    [] OTHER -> << seg >>

RECURSIVE Decode(_)
Decode(url) ==
  IF url = << >> THEN << >>
  ELSE DecodeSegment(Head(url)) \o Decode(Tail(url))

\* path.join and path.normalize on an absolute path: '..' removes the
\* name before it and is dropped at the root
RECURSIVE Normalize(_, _)
Normalize(base, segs) ==
  IF segs = << >> THEN base
  ELSE IF Head(segs) = ".."
         THEN Normalize(IF base = << >> THEN << >>
                        ELSE SubSeq(base, 1, Len(base) - 1), Tail(segs))
         ELSE Normalize(Append(base, Head(segs)), Tail(segs))

\* filePath.startsWith('/vendor/')
IsVendor(segs) == Len(segs) >= 2 /\ segs[1] = "vendor"

\* the path the handler reads: '/' stands for /index.html; a /vendor/ path
\* is joined to the vendor directory, any other to outDir
ResolvedPath(url) ==
  LET segs == IF url = << >> THEN << "index.html" >> ELSE Decode(url)
  IN IF IsVendor(segs) THEN Normalize(VendorDir, Tail(segs))
     ELSE Normalize(OutDir, segs)

\* the request handler of createServer: decode, answer OPTIONS with 200,
\* else 200 with the file when the resolved path is a regular file, else
\* 404; a URIError of the decoding leaves the handler before any answer
Respond(method, url) ==
  IF \E i \in 1..Len(url) : Malformed(url[i])
    THEN [ status |-> "exception", file |-> << >> ]
  ELSE IF method = "OPTIONS"
    THEN [ status |-> "200", file |-> << >> ]
  ELSE IF ResolvedPath(url) \in Disk
    THEN [ status |-> "200", file |-> ResolvedPath(url) ]
  ELSE [ status |-> "404", file |-> << >> ]

\* a request arrives at the listening server and is answered
Serve(method, url) ==
  /\ Alive
  /\ httpLib = "listening"
  /\ request' = [ method |-> method, url |-> url ]
  /\ response' = Respond(method, url)
  /\ UNCHANGED << fwdVars, watchVars, runVars >>

NextHttp ==
  \E method \in {"GET", "OPTIONS"}, url \in Urls(MaxSegs) : Serve(method, url)

SpecHttp == MonolithServing /\ [][NextHttp]_vars

(* ---- properties: verdict -------------------------------------------- *)

\* index of the last start message of a history (0: none)
LastStart(h) ==
  IF \E i \in 1..Len(h) : h[i].type = "start"
    THEN CHOOSE i \in 1..Len(h) :
           /\ h[i].type = "start"
           /\ \A j \in (i + 1)..Len(h) : h[j].type # "start"
    ELSE 0

\* failed specDone events delivered since the last jasmineStarted
FailedDelivered(h) ==
  Cardinality({ i \in (LastStart(h) + 1)..Len(h) :
                  h[i].type = "specDone" /\ h[i].status = "failed" })

\* the relay's success flag after its latest `done`
FlagIs(b) ==
  /\ testSuccess = b
  /\ variant = "monolith" => testCompleted
  /\ variant = "modular" => (emitted # << >> /\ emitted[Len(emitted)] = b)

\* C1: for every `done` message handled after a sequence of specDone
\* events, jasmineDone returns the number of specDone events with status
\* 'failed' delivered to the reporter since jasmineStarted, and the success
\* flag of the relay (testSuccess, the testsCompleted payload) is true
\* exactly when that number is 0.
C1_DoneReturnsFailedCount ==
  \A i \in 1..Len(log) :
    log[i].type = "done" =>
      /\ log[i].ret = FailedDelivered(SubSeq(log, 1, i - 1))
      /\ i = Len(log) => FlagIs(FailedDelivered(SubSeq(log, 1, i - 1)) = 0)

\* a `done` was processed and the reporter returned zero failures
DoneZero == \E i \in 1..Len(log) : log[i].type = "done" /\ log[i].ret = 0

\* no `done` message was received
NoDone == \A i \in 1..Len(log) : log[i].type # "done"

\* a `start` message was received
StartReceived == \E i \in 1..Len(log) : log[i].type = "start"

\* the process has called process.exit
Exited == exitCode # "none"

\* C2: in every mode the process exits with code 0 only if a `done` was
\* processed with zero failed specs or the child runner exited with 0, and
\* never after an interrupt during the run.
C2_ExitZeroOnlyWhenPassed ==
  exitCode = "0" => (DoneZero \/ childCode = "0") /\ ~sigintExec

\* C3: once a SIGINT has arrived while a driver was executing, the process
\* exit code is 1, whatever arrives afterwards.
C3_InterruptExitsOne ==
  (sigintExec /\ Exited) => exitCode = "1"

\* the headless browser driver has launched a browser
HeadlessBrowserRun == headless /\ browserInst # "none"

\* C4: in headless browser mode the process exits with 0 only if a `done`
\* was received and the reporter returned zero failures; when the page flag
\* was observed and no `done` was received, the exit code is 1.
C4_FlagAloneNeverSucceeds ==
  HeadlessBrowserRun =>
    /\ exitCode = "0" => (DoneZero /\ testCompleted)
    /\ (Exited /\ flagSeen /\ NoDone) => exitCode = "1"

\* the flag was observed, no `done` came, and the process exited with 1
C4_Witness ==
  /\ HeadlessBrowserRun
  /\ flagSeen /\ NoDone
  /\ exitCode = "1"

\* C5: with browser 'node' and headless false, no HTTP server, WebSocket
\* server, child process or browser is ever started, and start() ends in
\* process.exit(1) at the driver selection.
C5_InvalidStartsNothing ==
  (~headless /\ browser = "node") =>
    /\ ~server /\ httpLib = "none"
    /\ ~wss /\ wssLib = "none"
    /\ child = "none"
    /\ browserInst = "none" /\ page = "none"
    /\ exitCode \in {"none", "1"}
    /\ "invalidConfiguration" \in printed => exitCode = "1"

\* the invalid configuration was reported and the process exited with 1
C5_Witness ==
  /\ ~headless /\ browser = "node"
  /\ "invalidConfiguration" \in printed
  /\ exitCode = "1"

\* C6: when start() reports the invalid configuration, preprocess() has not
\* been started and neither the output directory nor a file in it exists.
C6_InvalidRejectedBeforeSideEffects ==
  "invalidConfiguration" \in printed =>
    /\ fs.builds = 0 /\ fs.build = "none"
    /\ ~fs.outDir /\ ~fs.html /\ ~fs.runner

\* start() took the fallback branch after checkBrowser() returned null
Fallback == "fallbackNotice" \in printed

C8_LaunchFailureFallsBack ==
  "launchError" \in printed =>
    /\ Fallback
    /\ "browserExecFailed" \notin printed

\* C9: when preprocess() has failed, the process has exited with 1 and no
\* HTTP server, WebSocket server, browser or child process was started.
C9_BuildFailureSelectsNoDriver ==
  "buildFailed" \in printed =>
    /\ exitCode = "1"
    /\ pc \in {"discover", "build"}
    /\ ~server /\ httpLib = "none"
    /\ ~wss /\ wssLib = "none"
    /\ browserInst = "none"
    /\ child = "none"

\* viteBuild() rejected and the process exited with 1
C9_Witness ==
  /\ fs.build = "failed"
  /\ "buildFailed" \in printed
  /\ exitCode = "1"

\* the diagnostics of a run that ended without results
IncompleteDiagnostics == {"testExecFailed", "abortedByUser", "browserExecFailed"}

\* C10: in headless browser mode, when a `start` was received, no `done`
\* arrived and the process has exited, the exit code is 1, the summary was
\* not printed and a failure or aborted diagnostic was.
C10_NoDoneIsIncomplete ==
  (HeadlessBrowserRun /\ StartReceived /\ NoDone /\ Exited) =>
    /\ exitCode = "1"
    /\ "summary" \notin printed
    /\ printed \cap IncompleteDiagnostics # {}

\* start arrived, the connection closed, waitForFunction() timed out and the
\* process exited with 1 after printing the failure
C10_Witness ==
  /\ HeadlessBrowserRun
  /\ StartReceived /\ NoDone
  /\ \E c \in ConnIds : conn[c] = "closed"
  /\ ~flagSeen
  /\ "testExecFailed" \in printed
  /\ exitCode = "1"

(* ---- properties: release of resources ------------------------------- *)

\* both servers are closed and their references dropped
ServersClosed ==
  /\ ~server /\ httpLib \in {"none", "closed"}
  /\ ~wss /\ wssLib \in {"none", "closed"}

\* C11: when the process exits after a SIGINT arrived while a driver was
\* executing, a spawned child has been sent the kill signal, a launched
\* browser has been closed, and both servers have been closed.
C11_InterruptReleasesResources ==
  (sigintExec /\ Exited) =>
    /\ child # "none" => childKilled
    /\ browserInst # "open"
    /\ ServersClosed

\* C12: calls of cleanup() made one after the other close each server at
\* most once and never fail, and once a call has completed the server and
\* WebSocket-server references are null and the client list is empty.
C12_SecondCleanupIsNoOp ==
  /\ closeCalls.wss <= 1 /\ closeCalls.server <= 1
  /\ cpc["api"] \notin {"serverError", "rejected"}
  /\ cpc["api"] = "done" => (~server /\ ~wss /\ wsClients = {})

\* a second cleanup() has returned after the first closed both servers
C12_Witness ==
  /\ cleanupCalls = 2
  /\ cpc["api"] = "done"
  /\ closeCalls = [wss |-> 1, server |-> 1]
  /\ ServersClosed

\* C13: with cleanup() calls overlapping, each server is closed at most
\* once and no call fails.
C13_OverlappingCleanupIsNoOp ==
  /\ closeCalls.wss <= 1 /\ closeCalls.server <= 1
  /\ \A t \in Threads : cpc[t] \notin {"serverError", "rejected"}

\* C14: when the process exits after the HTTP server was listening,
\* cleanup() has completed, both servers are closed and no relay
\* connection is open.
C14_CleanupBeforeExit ==
  (Exited /\ httpLib \notin {"none", "created"}) =>
    /\ \E t \in Threads : cpc[t] = "done"
    /\ ServersClosed
    /\ NoOpenConn /\ wsClients = {}

(* ---- properties: reporter and relay ---------------------------------- *)

\* specDone events with a status in S delivered since the last jasmineStarted
CountSince(h, S) ==
  Cardinality({ i \in (LastStart(h) + 1)..Len(h) :
                  h[i].type = "specDone" /\ h[i].status \in S })

\* message numbers of the specDone events with status st delivered since
\* the last jasmineStarted, in delivery order
DeliveredIds(h, st) ==
  LET seg == SubSeq(h, LastStart(h) + 1, Len(h))
      IsSt(e) == e.type = "specDone" /\ e.status = st
      sel == SelectSeq(seg, IsSt)
  IN [ i \in 1..Len(sel) |-> sel[i].id ]

\* the history before its last entry
Before(h) == SubSeq(h, 1, Len(h) - 1)

\* the latest message handled was a `done`
DoneJustHandled == log # << >> /\ log[Len(log)].type = "done"

\* the counters and lists of the reporter
Counters(r) ==
  << r.specCount, r.executableSpecCount, r.failureCount, r.failedSpecs,
     r.pendingSpecs >>

\* C15: a specDone whose status is none of passed, failed, pending is
\* counted as a failed spec: failureCount and the failed-spec list grow with
\* every failed or malformed specDone.
C15_MalformedCountsAsFailed ==
  /\ consoleReporter.failureCount = CountSince(log, {"failed", "bogus"})
  /\ Len(consoleReporter.failedSpecs) = CountSince(log, {"failed", "bogus"})

\* a frame that did not parse, or whose type is unknown, was received
DroppedStep ==
  /\ msgCount' = msgCount + 1
  /\ \/ log' = log
     \/ /\ Len(log') = Len(log) + 1
        /\ log'[Len(log')].type = "other"

\* C16: receiving a frame that does not parse or has an unknown type leaves
\* the reporter's counters and lists, testCompleted, testSuccess and the
\* testsCompleted events unchanged, prints no summary, and leaves the
\* connection open and the process running.
C16_BadMessageDropped ==
  [][ DroppedStep =>
        /\ Counters(consoleReporter') = Counters(consoleReporter)
        /\ testCompleted' = testCompleted
        /\ testSuccess' = testSuccess
        /\ emitted' = emitted
        /\ rendered' = rendered
        /\ conn' = conn
        /\ exitCode' = exitCode /\ killed' = killed ]_vars

\* an unparsable frame and a frame of unknown type were dropped and a
\* specDone on the same connection was processed after them
C16_Witness ==
  /\ msgCount = 3
  /\ Len(log) = 2
  /\ log[1].type = "other" /\ log[1].id = 2
  /\ log[2].type = "specDone" /\ log[2].status = "passed"
  /\ consoleReporter.specCount = 1
  /\ ~testCompleted /\ emitted = << >>

\* the reporter calls the relay has made, in order
ReporterCalls ==
  LET IsCall(e) == e.type \in {"start", "specDone", "done"}
  IN SelectSeq(log, IsCall)

\* C17: the reporter's calls are one jasmineStarted first, then specDone
\* calls, then at most one jasmineDone with nothing after it.
C17_OrderedReporterCalls ==
  LET c == ReporterCalls
  IN c # << >> =>
       /\ c[1].type = "start"
       /\ \A i \in 2..Len(c) : c[i].type # "start" /\ c[i - 1].type # "done"

\* C18: once a `done` has been handled, no step changes the reporter's
\* counters or lists, testCompleted or testSuccess.
C18_ReadOnlyAfterDone ==
  [][ (\E i \in 1..Len(log) : log[i].type = "done") =>
        /\ Counters(consoleReporter') = Counters(consoleReporter)
        /\ testCompleted' = testCompleted
        /\ testSuccess' = testSuccess ]_vars

\* C19: what jasmineDone prints is the failed specs in delivery order, each
\* with all its messages, and then the pending specs in delivery order.
C19_RenderedInDeliveryOrder ==
  DoneJustHandled =>
    /\ [ i \in 1..Len(rendered.failed) |-> rendered.failed[i].id ]
         = DeliveredIds(Before(log), "failed")
    /\ \A i \in 1..Len(rendered.failed) : rendered.failed[i].msgs
    /\ rendered.pending = DeliveredIds(Before(log), "pending")

\* C20: the summary jasmineDone prints holds the number of passed, failed
\* and pending specDone events since jasmineStarted and the number of failed
\* ones; failureCount always equals the length of the failed-spec list.
C20_SummaryCounts ==
  /\ consoleReporter.failureCount = Len(consoleReporter.failedSpecs)
  /\ DoneJustHandled =>
       rendered.summary =
         << CountSince(Before(log), {"passed", "failed", "pending"}),
            CountSince(Before(log), {"failed"}) >>

(* ---- properties: drivers, handlers, ordering -------------------------- *)

\* C21: a browser engine that was launched is the engine of the configured
\* name, and a child runner is spawned only by the fallback or in the
\* configured headless Node mode.
C21_OnlyFallbackSubstitutes ==
  /\ engine # "none" => engine = EngineOf(browser)
  /\ (child # "none" /\ ~Fallback) => (headless /\ browser = "node")

\* the sockets that have connected and not yet closed or errored
OpenConns == { c \in ConnIds : conn[c] = "open" }

\* C22: the client set is always the set of open connections, and the
\* close or error of a connection removes it from the client set and
\* changes neither the reporter, testCompleted, testSuccess, the
\* testsCompleted events, the rendered report nor the process.
C22_CloseOnlyRemovesClient ==
  [][ /\ wsClients = OpenConns
      /\ wsClients' = { c \in ConnIds : conn'[c] = "open" }
      /\ \A c \in ConnIds :
           (conn[c] = "open" /\ conn'[c] = "closed") =>
             /\ wsClients' = wsClients \ {c}
             /\ UNCHANGED << consoleReporter, testCompleted, testSuccess,
                             emitted, rendered, log, exitCode, killed >> ]_vars

\* a connection closed after `start` and before any `done`; the run is not
\* marked complete and no testsCompleted was emitted
C22_Witness ==
  /\ \E c \in ConnIds : conn[c] = "closed" /\ handled[c] # << >>
  /\ StartReceived /\ NoDone
  /\ wsClients = {}
  /\ ~testCompleted /\ ~testSuccess /\ emitted = << >>
  /\ exitCode = "none"

\* one of the two handlers of headed mode has started
HeadedHandlerRan == hpc["pageClose"] # "idle" \/ hpc["sigint"] # "idle"

\* C23: in headed mode, when the page-close handler or the SIGINT handler
\* has run and no `done` was observed, testsAborted was reported.
C23_AbortRecordedInHeadedMode ==
  (~headless /\ HeadedHandlerRan /\ NoDone /\ ~testCompleted) =>
    "testsAborted" \in printed

C25_NoListenerAfterCleanup ==
  (\E t \in Threads : cpc[t] = "done") => listeners = {}

\* a driver action has begun
DriverBegun ==
  \/ server \/ httpLib # "none" \/ wss
  \/ browserInst # "none"
  \/ child # "none"
  \/ pc \in {"resolvedNode", "resolvedFallback"}

\* C26: the build is started at most once, and when a driver action has
\* begun the one build has completed.
C26_BuildOnceBeforeDriver ==
  /\ fs.builds <= 1
  /\ DriverBegun => (fs.build = "done" /\ fs.builds = 1)

\* the server listens and a browser is open after the one build
C26_Witness ==
  /\ httpLib = "listening"
  /\ browserInst = "open"
  /\ fs.build = "done" /\ fs.builds = 1

\* C27: when the promise of runHeadlessTests() has resolved, its value is
\* true exactly when the child closed with code 0 and no SIGINT was
\* received, the SIGINT listener it installed is removed, and without
\* test-runner.js no child was spawned.
C27_RunHeadlessTestsResult ==
  pc \in {"resolvedNode", "resolvedFallback"} =>
    /\ success <=> (child = "closed" /\ childCode = "0" /\ ~interrupted)
    /\ "child" \notin listeners
    /\ child \in {"none", "closed", "error"}
    /\ child = "none" <=> "runnerNotFound" \in printed

\* the child closed with code 0 after a SIGINT and the result is false
C27_Witness ==
  /\ pc = "resolvedNode"
  /\ child = "closed" /\ childCode = "0"
  /\ interrupted /\ childKilled
  /\ ~success

\* C28: the generated runner exits with 1 whenever a spec failed, and with
\* 0 only when no spec failed and nothing was thrown.
C28_RunnerExitCode ==
  (child = "closed" /\ childCode # "null") =>
    /\ childRun.failures > 0 => childCode = "1"
    /\ childCode = "0" => (childRun.failures = 0 /\ ~childRun.threw)

\* the diagnostics of a build failure, an invalid configuration and an
\* error thrown during execution
ErrorDiagnostics ==
  {"buildFailed", "invalidConfiguration", "browserExecFailed", "startFailed",
   "serverError", "unhandledRejection"}

\* C29: the exit code is 0 or 1, and it is 1 after a build failure, an
\* invalid configuration or an error thrown during execution.
C29_ExitCodeZeroOrOne ==
  /\ exitCode \in {"none", "0", "1"}
  /\ (Exited /\ printed \cap ErrorDiagnostics # {}) => exitCode = "1"

\* an error thrown by the browser driver ended the process with 1
C29_Witness ==
  /\ "browserExecFailed" \in printed
  /\ cpc["main"] = "done"
  /\ exitCode = "1"

\* the frames of h that parse
Parsed(h) ==
  LET Ok(m) == m.type # "garbage"
  IN SelectSeq(h, Ok)

\* type and status of the entries of a sequence
Shape(h) == [ i \in 1..Len(h) |-> << h[i].type, h[i].status >> ]

\* C30: the frames handed over on a connection followed by those still in
\* flight are the frames sent on it, in order; every parsed frame reaches
\* handleWebSocketMessage once, and with one connection sending the calls
\* are made in the order the frames were sent.
C30_ForwardedInOrder ==
  /\ \A c \in ConnIds : sent[c] = handled[c] \o inbox[c]
  /\ Len(log) =
       Cardinality({ ci \in ConnIds \X (1..MaxSent) :
                       /\ ci[2] <= Len(handled[ci[1]])
                       /\ handled[ci[1]][ci[2]].type # "garbage" })
  /\ \A i \in 1..(Len(log) - 1) : log[i].id < log[i + 1].id
  /\ \A c \in ConnIds :
       (\A d \in ConnIds \ {c} : handled[d] = << >>) =>
         Shape(log) = Shape(Parsed(handled[c]))

\* two frames sent on one connection were forwarded in the order sent
C30_Witness ==
  \E c \in ConnIds :
    /\ Len(sent[c]) = 2 /\ inbox[c] = << >>
    /\ sent[c][1].type = "start" /\ sent[c][2].type = "specDone"
    /\ Len(log) = 2
    /\ log[1].type = "start" /\ log[2].type = "specDone"
    /\ consoleReporter.specCount = 1

(* ---- properties: reporter robustness, browser release, verdict ------- *)

\* C31: no call of a reporter method throws: every jasmineDone call made
\* for a `done` message returns a count, whatever the payloads of the
\* events before it were.
C31_ReporterNeverThrows ==
  \A i \in 1..Len(log) : log[i].type = "done" => log[i].ret # -1

\* C32: in headless browser mode, once control is back in start() after
\* the browser was launched, the browser instance has been closed.
C32_BrowserClosedOnReturn ==
  (headless /\ browserInst # "none" /\ pc = "cleanup") =>
    browserInst = "closed"

\* a specDone with status 'failed' was forwarded to the reporter
FailedForwarded ==
  \E i \in 1..Len(log) : log[i].type = "specDone" /\ log[i].status = "failed"

\* C33: in a headless run, once a failed specDone has been forwarded to
\* the reporter the process does not exit with code 0, whatever messages
\* follow.
C33_FailedNeverExitsZero ==
  (headless /\ FailedForwarded) => exitCode # "0"

\* the page has sent `done` and set its flag, and sent no failed specDone
CleanDoneSent ==
  /\ jasmineFinished
  /\ \A c \in ConnIds : \A i \in 1..Len(sent[c]) : sent[c][i].status # "failed"

\* C34: in headless browser mode, when the page has sent `done` with no
\* failed spec over an open connection and then set its flag, the `done`
\* has been processed when the verdict is read, and the run exits with 0.
C34_DoneProcessedBeforeVerdict ==
  (CleanDoneSent /\ pc \notin {"waitForFunction", "buffer"}) =>
    /\ testCompleted
    /\ Exited => exitCode = "0"

\* C35: a cleanup() call that is waiting for the close callback of the
\* WebSocket server or of the HTTP server eventually returns.
C35_CleanupCompletes ==
  (cpc["api"] \in {"awaitWss", "awaitServer"}) ~> (cpc["api"] = "done")

(* ---- properties: the test page ---------------------------------------- *)

C37_OneRebuildAtATime ==
  /\ rebuilding <= 1
  /\ rebuilds <= changes

\* p is a path below the directory root
Under(root, p) == Len(p) > Len(root) /\ SubSeq(p, 1, Len(root)) = root

\* C38: a 200 answer with file contents sends a regular file below outDir,
\* or below the vendor directory for a /vendor/ path, and every other
\* request that is not OPTIONS is answered with 404.
C38_ServesOnlyBelowRoots ==
  request.method # "none" =>
    /\ (response.status = "200" /\ response.file # << >>) =>
         /\ response.file \in Disk
         /\ \/ Under(OutDir, response.file)
            \/ /\ IsVendor(Decode(request.url))
               /\ Under(VendorDir, response.file)
    /\ (request.method # "OPTIONS" /\ response.file = << >>) =>
         response.status = "404"

====
